---- MODULE Spec2Model ----
(***************************************************************************)
(* Model of the ring buffer of src/src/ringBuffer.c: the handle table      *)
(* gRbInfo and, per instance, the byte region, the two cursors, the        *)
(* chunk-length log dataLen with its two indices, and the peek/commit      *)
(* protocol.                                                               *)
(*                                                                         *)
(* Pointers are modelled as offsets: pWriter and pReader are the byte      *)
(* offsets of the C pointers from pBufferBegin; pBufferBegin and           *)
(* fragmentedDataPtr are TRUE when the C pointer is not NULL, and mem and  *)
(* fragMem hold the contents of the heap blocks they point to.             *)
(***************************************************************************)
EXTENDS Integers, Sequences, FiniteSets, TLC

(* ---- sizes. The program's limits are scaled down so that the log and    *)
(* the region fill up and wrap within a few calls.                         *)
\* MAX_DATA_INDEX of the source is 1000; the log of the model has this many slots
MAX_DATA_INDEX == 3
\* MAX_BUFFER_HANDLE of the source is 10
MAX_BUFFER_HANDLE == 2
\* MAX_ALLOWED_BUFFER_SIZE_IN_BYTES of the source is 10 MB
MAX_ALLOWED_BUFFER_SIZE_IN_BYTES == 16
INVALID_BUFFER_HANDLE == -1
\* size of the instance the core specification works on
Capacity == 4
\* number of distinct byte values a caller writes
NumBytes == 2
\* the runs explored hold at most this many successful writes per instance
MaxWrites == 4
\* the instances of the handle-table specification hold at most this many bytes
PoolCapacity == 2
\* and the instances live at one time at most this many successful writes
PoolWrites == 1
\* the instance of the one-instance specification holds at most this many
\* successful writes
LifeWrites == 3

Bytes == 1..NumBytes
\* a byte of malloc'ed memory that was never written, or a byte outside the
\* block: its value is indeterminate, and it is taken to differ from any
\* byte a caller wrote
Indeterminate == 0

RECURSIVE Sum(_)
Sum(q) == IF q = <<>> THEN 0 ELSE Head(q) + Sum(Tail(q))

\* q is a sequence of chunks, each with the lengths of its log entries
RECURSIVE PendingBytes(_)
PendingBytes(q) == IF q = <<>> THEN 0 ELSE Sum(Head(q).entries) + PendingBytes(Tail(q))

RECURSIVE PendingEntries(_)
PendingEntries(q) == IF q = <<>> THEN 0 ELSE Len(Head(q).entries) + PendingEntries(Tail(q))

\* the byte spans of length lo..hi that callers write: each starts with any
\* byte value and steps to the next value at every byte, so that no two
\* neighbouring bytes of a span are equal and spans of one length differ
SpansFrom(firsts, lo, hi) ==
  {[i \in 1..n |-> ((first + i - 2) % NumBytes) + 1] : n \in lo..hi, first \in firsts}

Spans(lo, hi) == SpansFrom(Bytes, lo, hi)

\* gRbInfo  the handle table of the program
\* ghost    history kept beside it, per handle
\* ret      the latest call and what it returned
\* pc       the position of the caller: the next step of the scenario it
\*          runs and the two spans A and B of that scenario, or "run" when it
\*          makes any call at any time
VARIABLES gRbInfo, ghost, ret, pc
vars == <<gRbInfo, ghost, ret, pc>>

Handles == 0..(MAX_BUFFER_HANDLE - 1)

(* ---- memory ---- *)
\* memcpy(block + off, data, Len(data)); bytes falling outside the block are
\* not part of the modelled memory
MemWrite(mem, off, data) ==
  [i \in 1..Len(mem) |->
     IF off < i /\ i <= off + Len(data) THEN data[i - off] ELSE mem[i]]

\* the n bytes seen through the pointer block + off
MemRead(mem, off, n) ==
  [i \in 1..n |-> IF off + i >= 1 /\ off + i <= Len(mem) THEN mem[off + i] ELSE Indeterminate]

\* malloc(n): a block of n indeterminate bytes
Malloc(n) == [i \in 1..n |-> Indeterminate]

(* ---- Rb_InitModule ---- *)
InitSlot ==
  [pBufferBegin |-> FALSE, mem |-> <<>>, pWriter |-> 0, pReader |-> 0, size |-> 0,
   readIndex |-> 0, writeIndex |-> 0,
   dataLen |-> [i \in 0..(MAX_DATA_INDEX - 1) |-> 0],
   bufferHandle |-> INVALID_BUFFER_HANDLE, fragmentedDataF |-> FALSE,
   fragmentedDataPtr |-> FALSE, fragMem |-> <<>>, readCommittedF |-> TRUE]

Rb_InitModule == [h \in Handles |-> InitSlot]

IS_VALID_BUFFER_HANDLE(g, handle) ==
  /\ handle >= 0
  /\ handle < MAX_BUFFER_HANDLE
  /\ g[handle].bufferHandle # INVALID_BUFFER_HANDLE

(* ---- space and index accounting ---- *)
getUnreadIndexCount(rb) ==
  IF rb.readIndex > rb.writeIndex
    THEN MAX_DATA_INDEX - (rb.readIndex - rb.writeIndex)
    ELSE rb.writeIndex - rb.readIndex

getContiguousFreeSpace(rb) ==
  IF rb.pWriter < rb.pReader
    THEN rb.pReader - rb.pWriter
    ELSE rb.size - rb.pWriter

getFreeSpace(rb) ==
  IF rb.pWriter < rb.pReader
    THEN rb.pReader - rb.pWriter
    ELSE rb.size - (rb.pWriter - rb.pReader)

getOccupiedSpace(rb) == rb.size - getFreeSpace(rb)

IS_BUFFER_EMPTY(rb) == getFreeSpace(rb) = rb.size

\* dataLen[i]; an index outside the array reads memory that is not the log,
\* and yields the value oob
DataLenAt(rb, i, oob) ==
  IF i \in DOMAIN rb.dataLen THEN rb.dataLen[i] ELSE oob

\* dataLen[i] = 0 on the read side. A store outside the array lands on the
\* fields that follow dataLen in Rb_Info_t (bufferHandle, fragmentedDataF) or
\* is not seen at all: clob chooses
ZeroDataLen(rb, i, clob) ==
  IF i \in DOMAIN rb.dataLen THEN [rb EXCEPT !.dataLen[i] = 0]
  ELSE IF clob THEN [rb EXCEPT !.bufferHandle = 0, !.fragmentedDataF = FALSE]
  ELSE rb

IS_DATA_FRAGMENTED(rb, oob) ==
  /\ rb.pReader + DataLenAt(rb, rb.readIndex, oob) = rb.size
  /\ rb.fragmentedDataF = TRUE

(* ---- results of a call: the instance after it, and what it returned ---- *)
Result(rb, ok, err, len, view, consumed) ==
  [rb |-> rb, ok |-> ok, err |-> err, len |-> len, view |-> view, consumed |-> consumed]

\* FREE_MEMORY(rbInfo->fragmentedDataPtr): releases the block and leaves the
\* pointer NULL
FREE_MEMORY(rb) == [rb EXCEPT !.fragmentedDataPtr = FALSE, !.fragMem = <<>>]

(* ---- Rb_WriteToBuffer, for a valid handle ---- *)
WriteWrapped(rb, data) ==
  LET contiguousFreeSpace == getContiguousFreeSpace(rb)
      next == rb.writeIndex + 1
  IN [rb EXCEPT !.mem = MemWrite(@, rb.pWriter, SubSeq(data, 1, contiguousFreeSpace)),
                !.dataLen[rb.writeIndex] = contiguousFreeSpace,
                !.writeIndex = IF next = MAX_DATA_INDEX THEN 0 ELSE next,
                !.pWriter = 0,
                !.fragmentedDataF = TRUE]

WriteRest(rb, rest) ==
  LET next == rb.writeIndex + 1
  IN [rb EXCEPT !.mem = MemWrite(@, rb.pWriter, rest),
                !.dataLen[rb.writeIndex] = Len(rest),
                !.writeIndex = IF next = MAX_DATA_INDEX THEN 0 ELSE next,
                !.pWriter = @ + Len(rest)]

WriteChunkLogFull(rb) == getUnreadIndexCount(rb) >= MAX_DATA_INDEX

Rb_WriteToBuffer(rb, dataNull, data) ==
  LET dataBytes == Len(data)
      totalFreeSpace == getFreeSpace(rb)
      contiguousFreeSpace == getContiguousFreeSpace(rb)
  IN IF dataBytes = 0 \/ dataNull
       THEN Result(rb, FALSE, "InvalidArgument", dataBytes, <<>>, 0)
     ELSE IF WriteChunkLogFull(rb)
       THEN Result(rb, FALSE, "ChunkLogFull", dataBytes, <<>>, 0)
     ELSE IF totalFreeSpace < dataBytes
       THEN Result(rb, FALSE, "InsufficientSpace", dataBytes, <<>>, 0)
     ELSE IF contiguousFreeSpace < dataBytes
       THEN Result(WriteRest(WriteWrapped(rb, data),
                             SubSeq(data, contiguousFreeSpace + 1, dataBytes)),
                   TRUE, "none", dataBytes, <<>>, 0)
     ELSE Result(WriteRest(rb, data), TRUE, "none", dataBytes, <<>>, 0)

(* ---- Rb_PeekRead ---- *)
handleFragmentedPeek(rb, allocOk, oob, clob) ==
  LET part1Bytes == DataLenAt(rb, rb.readIndex, oob)
      rb1 == ZeroDataLen(rb, rb.readIndex, clob)
      next == rb1.readIndex + 1
      rb2 == [rb1 EXCEPT !.readIndex = IF next = MAX_DATA_INDEX THEN 0 ELSE next]
      part2Bytes == DataLenAt(rb2, rb2.readIndex, oob)
      rb3 == [ZeroDataLen(rb2, rb2.readIndex, clob) EXCEPT !.readIndex = @ + 1]
      total == part1Bytes + part2Bytes
  IN IF ~allocOk
       THEN Result([rb3 EXCEPT !.fragmentedDataPtr = FALSE, !.fragMem = <<>>],
                   FALSE, "AllocationFailure", 0, <<>>, 1)
     ELSE LET copy == MemRead(rb3.mem, rb3.pReader, part1Bytes) \o MemRead(rb3.mem, 0, part2Bytes)
          IN Result([rb3 EXCEPT !.fragmentedDataPtr = TRUE, !.fragMem = copy,
                                !.pReader = part2Bytes],
                    TRUE, "none", total, copy, 1)

PeekReadNotCommitted(rb) == rb.readCommittedF = FALSE

Rb_PeekRead(rb, argNull, allocOk, oob, clob) ==
  IF argNull
    THEN Result(rb, FALSE, "InvalidArgument", 0, <<>>, 0)
  ELSE IF PeekReadNotCommitted(rb)
    THEN Result(rb, FALSE, "ReadNotCommitted", 0, <<>>, 0)
  ELSE LET rb1 == [rb EXCEPT !.readCommittedF = FALSE]
       IN IF DataLenAt(rb1, rb1.readIndex, oob) = 0
            THEN Result(rb1, FALSE, "NoData", 0, <<>>, 0)
          ELSE IF IS_DATA_FRAGMENTED(rb1, oob)
            THEN handleFragmentedPeek(rb1, allocOk, oob, clob)
          ELSE Result(rb1, TRUE, "none", DataLenAt(rb1, rb1.readIndex, oob),
                      MemRead(rb1.mem, rb1.pReader, DataLenAt(rb1, rb1.readIndex, oob)), 0)

(* ---- Rb_CommitRead ---- *)
\* handleFragmentedCommit that frees the reassembly buffer and leaves
\* fragmentedDataF as it is
handleFragmentedCommitKeepsFlag(rb) == FREE_MEMORY(rb)

handleFragmentedCommit(rb) == [FREE_MEMORY(rb) EXCEPT !.fragmentedDataF = FALSE]

advanceReader(rb, dataBytes, clob) ==
  LET rb1 == ZeroDataLen(rb, rb.readIndex, clob)
      next == rb1.readIndex + 1
  IN [rb1 EXCEPT !.pReader = @ + dataBytes,
                 !.readIndex = IF next = MAX_DATA_INDEX THEN 0 ELSE next]

\* resetBuffer that resets the indices and leaves the cursors where they are
resetBufferKeepsCursors(rb) == [rb EXCEPT !.readIndex = 0, !.writeIndex = 0]

resetBuffer(rb) ==
  [rb EXCEPT !.pReader = 0, !.pWriter = 0, !.readIndex = 0, !.writeIndex = 0]

CommitNoPendingPeek(rb) == rb.readCommittedF = TRUE

CommitDrain(rb) == IF IS_BUFFER_EMPTY(rb) THEN resetBuffer(rb) ELSE rb

Rb_CommitRead(rb, dataBytes, oob, clob) ==
  IF CommitNoPendingPeek(rb)
    THEN Result(rb, FALSE, "NoPendingPeek", dataBytes, <<>>, 0)
  ELSE LET rb1 == [rb EXCEPT !.readCommittedF = TRUE]
       IN IF dataBytes = 0
            THEN Result(rb1, FALSE, "InvalidArgument", dataBytes, <<>>, 0)
          ELSE IF rb1.fragmentedDataPtr
            THEN Result(CommitDrain(handleFragmentedCommit(rb1)), TRUE, "none", dataBytes, <<>>, 0)
          ELSE IF dataBytes # DataLenAt(rb1, rb1.readIndex, oob)
            THEN Result(rb1, FALSE, "CommitLengthMismatch", dataBytes, <<>>, 0)
          ELSE Result(CommitDrain(advanceReader(rb1, dataBytes, clob)), TRUE, "none", dataBytes, <<>>, 1)

(* ---- Rb_CreateBuffer ---- *)
FreeSlots(g) == {i \in Handles : g[i].bufferHandle = INVALID_BUFFER_HANDLE}

FirstFreeSlot(g) == CHOOSE i \in FreeSlots(g) : \A j \in FreeSlots(g) : i <= j

CreateSizeExceeds(bufferSizeInBytes) == bufferSizeInBytes > MAX_ALLOWED_BUFFER_SIZE_IN_BYTES

\* Rb_CreateBuffer that leaves the indices of the slot as the previous
\* instance left them
CreatedSlotKeepsIndices(slot, handleId, bufferSizeInBytes) ==
  [slot EXCEPT !.pBufferBegin = TRUE, !.mem = Malloc(bufferSizeInBytes),
               !.pWriter = 0, !.pReader = 0, !.dataLen[0] = 0,
               !.size = bufferSizeInBytes,
               !.bufferHandle = handleId, !.fragmentedDataF = FALSE,
               !.fragmentedDataPtr = FALSE, !.fragMem = <<>>,
               !.readCommittedF = TRUE]

\* the slot as Rb_CreateBuffer leaves it: only dataLen[0] of the log is cleared
CreatedSlot(slot, handleId, bufferSizeInBytes) ==
  [slot EXCEPT !.pBufferBegin = TRUE, !.mem = Malloc(bufferSizeInBytes),
               !.pWriter = 0, !.pReader = 0, !.dataLen[0] = 0,
               !.size = bufferSizeInBytes, !.readIndex = 0, !.writeIndex = 0,
               !.bufferHandle = handleId, !.fragmentedDataF = FALSE,
               !.fragmentedDataPtr = FALSE, !.fragMem = <<>>,
               !.readCommittedF = TRUE]

\* [g, ok, err, handle]; allocOk is the outcome of malloc
Rb_CreateBuffer(g, bufferSizeInBytes, allocOk) ==
  IF CreateSizeExceeds(bufferSizeInBytes)
    THEN [g |-> g, ok |-> FALSE, err |-> "SizeExceedsLimit", handle |-> INVALID_BUFFER_HANDLE]
  ELSE IF FreeSlots(g) = {}
    THEN [g |-> g, ok |-> FALSE, err |-> "NoFreeInstanceSlot", handle |-> INVALID_BUFFER_HANDLE]
  ELSE LET handleId == FirstFreeSlot(g)
       IN IF ~allocOk
            THEN [g |-> [g EXCEPT ![handleId].pBufferBegin = FALSE, ![handleId].mem = <<>>],
                  ok |-> FALSE, err |-> "AllocationFailure", handle |-> INVALID_BUFFER_HANDLE]
          ELSE [g |-> [g EXCEPT ![handleId] = CreatedSlot(@, handleId, bufferSizeInBytes)],
                ok |-> TRUE, err |-> "none", handle |-> handleId]

(* ---- Rb_DestroyBuffer ---- *)
\* Rb_DestroyBuffer that releases the blocks and leaves the slot's handle set
DestroyedSlotKeepsHandle(slot) ==
  [slot EXCEPT !.pBufferBegin = FALSE, !.mem = <<>>,
               !.fragmentedDataPtr = FALSE, !.fragMem = <<>>]

\* the slot as Rb_DestroyBuffer leaves it: both blocks released, the handle
\* invalid, everything else as it was
DestroyedSlot(slot) ==
  [slot EXCEPT !.pBufferBegin = FALSE, !.mem = <<>>,
               !.fragmentedDataPtr = FALSE, !.fragMem = <<>>,
               !.bufferHandle = INVALID_BUFFER_HANDLE]

\* [g, ok, err, handle]; handle is the caller's variable after the call
Rb_DestroyBuffer(g, ptrNull, handle) ==
  IF ptrNull
    THEN [g |-> g, ok |-> FALSE, err |-> "InvalidArgument", handle |-> handle]
  ELSE IF ~IS_VALID_BUFFER_HANDLE(g, handle)
    THEN [g |-> g, ok |-> FALSE, err |-> "InvalidHandle", handle |-> handle]
  ELSE [g |-> [g EXCEPT ![handle] = DestroyedSlot(@)],
        ok |-> TRUE, err |-> "none", handle |-> INVALID_BUFFER_HANDLE]

(* ---- Rb_DeinitModule ---- *)
\* the slot as Rb_DeinitModule leaves it: both blocks released, every other
\* field, bufferHandle included, as it was. pWriter and pReader still address
\* the released region; its bytes are as they were or, with scrub,
\* indeterminate
DeinitSlot(slot, scrub) ==
  LET slot1 == IF slot.pBufferBegin
                 THEN [slot EXCEPT !.pBufferBegin = FALSE,
                                   !.mem = IF scrub THEN Malloc(slot.size) ELSE @]
                 ELSE slot
  IN IF slot1.fragmentedDataPtr THEN FREE_MEMORY(slot1) ELSE slot1

Rb_DeinitModule(g, scrub) == [handleId \in Handles |-> DeinitSlot(g[handleId], scrub)]

(* ---- Rb_GetFreeSpace, Rb_GetUnreadIndexCount ---- *)
\* [ok, err, value]; value is *freeSpace after a successful call
Rb_GetFreeSpace(g, handle, ptrNull) ==
  IF ~IS_VALID_BUFFER_HANDLE(g, handle)
    THEN [ok |-> FALSE, err |-> "InvalidHandle", value |-> 0]
  ELSE IF ptrNull
    THEN [ok |-> FALSE, err |-> "InvalidArgument", value |-> 0]
  ELSE [ok |-> TRUE, err |-> "none", value |-> getFreeSpace(g[handle])]

\* the handle is not validated; it is passed here for slots of the table only
Rb_GetUnreadIndexCount(g, handle) == getUnreadIndexCount(g[handle])

(* ---- history kept beside the program state, per handle ----
   pend     the chunks accepted by successful writes and not yet consumed,
            oldest first, each with its span and the lengths of the log
            entries its write recorded. A chunk is consumed when the reader
            is advanced past it: by a successful commit of a chunk in one
            entry, or by the peek of a chunk in two entries
   lastPeek the length returned by the latest successful peek when no
            CommitRead was called since, else 0
   lastPeekFrag  whether that peek reassembled a chunk in two entries
   peekCalled    PeekRead was called (with valid arguments) and no CommitRead
            succeeded since
   outstanding   a PeekRead succeeded and no CommitRead succeeded since
   drained  the latest successful CommitRead left no chunk pending, and no
            write succeeded since
   nWrites  the number of successful writes so far
   recycled the instance was created in a slot whose previous instance was
            destroyed with chunks pending *)
GhostInit ==
  [pend |-> <<>>, lastPeek |-> 0, lastPeekFrag |-> FALSE, peekCalled |-> FALSE,
   outstanding |-> FALSE, drained |-> FALSE, nWrites |-> 0, recycled |-> FALSE]

NoRet ==
  [op |-> "none", h |-> INVALID_BUFFER_HANDLE, ok |-> TRUE, err |-> "none", len |-> 0,
   view |-> <<>>, match |-> FALSE, wrapped |-> FALSE]

\* what the latest call was and returned; len is the length written, returned
\* or committed by a successful call. For a successful peek, match tells
\* whether the view is the span of the oldest chunk not yet consumed, and
\* wrapped whether the write of that chunk wrapped; for a write, wrapped tells
\* whether it wrapped; for a commit, whether it released a reassembly buffer
Ret(op, h, ok, err, len, view, match, wrapped) ==
  [op |-> op, h |-> h, ok |-> ok, err |-> err, len |-> len,
   view |-> view, match |-> match, wrapped |-> wrapped]

(* ---- the calls ---- *)
DoWrite(h, dataNull, data) ==
  IF ~IS_VALID_BUFFER_HANDLE(gRbInfo, h)
    THEN /\ ret' = Ret("write", h, FALSE, "InvalidHandle", 0, <<>>, FALSE, FALSE)
         /\ UNCHANGED <<gRbInfo, ghost>>
  ELSE LET r == Rb_WriteToBuffer(gRbInfo[h], dataNull, data)
           contiguous == getContiguousFreeSpace(gRbInfo[h])
           wrapped == r.ok /\ contiguous < Len(data)
           entries == IF wrapped THEN <<contiguous, Len(data) - contiguous>> ELSE <<Len(data)>>
       IN /\ gRbInfo' = [gRbInfo EXCEPT ![h] = r.rb]
          /\ ghost' = IF r.ok
                        THEN [ghost EXCEPT ![h].pend = Append(@, [span |-> data, entries |-> entries]),
                                           ![h].drained = FALSE,
                                           ![h].nWrites = @ + 1]
                        ELSE ghost
          /\ ret' = Ret("write", h, r.ok, r.err, IF r.ok THEN Len(data) ELSE 0, <<>>, FALSE, wrapped)

DoPeek(h, argNull, allocOk, oob, clob) ==
  IF ~IS_VALID_BUFFER_HANDLE(gRbInfo, h)
    THEN /\ ret' = Ret("peek", h, FALSE, "InvalidHandle", 0, <<>>, FALSE, FALSE)
         /\ UNCHANGED <<gRbInfo, ghost>>
  ELSE LET r == Rb_PeekRead(gRbInfo[h], argNull, allocOk, oob, clob)
           q == ghost[h].pend
           expect == IF q = <<>> THEN <<>> ELSE Head(q).span
           wrapped == IF q = <<>> THEN FALSE ELSE Len(Head(q).entries) = 2
       IN /\ gRbInfo' = [gRbInfo EXCEPT ![h] = r.rb]
          /\ ghost' = [ghost EXCEPT
                         ![h].pend = IF r.consumed > 0 /\ q # <<>> THEN Tail(q) ELSE q,
                         ![h].lastPeek = IF r.ok THEN r.len ELSE @,
                         ![h].lastPeekFrag = IF r.ok THEN r.consumed > 0 ELSE @,
                         ![h].peekCalled = IF argNull THEN @ ELSE TRUE,
                         ![h].outstanding = IF r.ok THEN TRUE ELSE @]
          /\ ret' = Ret("peek", h, r.ok, r.err, r.len, r.view, r.ok /\ q # <<>> /\ r.view = expect, r.ok /\ wrapped)

DoCommit(h, dataBytes, oob, clob) ==
  IF ~IS_VALID_BUFFER_HANDLE(gRbInfo, h)
    THEN /\ ret' = Ret("commit", h, FALSE, "InvalidHandle", 0, <<>>, FALSE, FALSE)
         /\ UNCHANGED <<gRbInfo, ghost>>
  ELSE LET r == Rb_CommitRead(gRbInfo[h], dataBytes, oob, clob)
           pend1 == IF r.consumed > 0 /\ ghost[h].pend # <<>>
                      THEN Tail(ghost[h].pend) ELSE ghost[h].pend
       IN /\ gRbInfo' = [gRbInfo EXCEPT ![h] = r.rb]
          /\ ghost' = [ghost EXCEPT
                         ![h].pend = pend1,
                         ![h].lastPeek = 0,
                         ![h].lastPeekFrag = FALSE,
                         ![h].peekCalled = IF r.ok THEN FALSE ELSE @,
                         ![h].outstanding = IF r.ok THEN FALSE ELSE @,
                         ![h].drained = IF r.ok THEN pend1 = <<>> ELSE @]
          /\ ret' = Ret("commit", h, r.ok, r.err, IF r.ok THEN dataBytes ELSE 0, <<>>, FALSE,
                        r.ok /\ gRbInfo[h].fragmentedDataPtr)

DoCreate(bufferSizeInBytes, allocOk) ==
  LET r == Rb_CreateBuffer(gRbInfo, bufferSizeInBytes, allocOk)
  IN /\ gRbInfo' = r.g
     /\ ghost' = IF r.ok
                   THEN [ghost EXCEPT ![r.handle] =
                           [GhostInit EXCEPT !.recycled = ghost[r.handle].pend # <<>>]]
                   ELSE ghost
     /\ ret' = Ret("create", r.handle, r.ok, r.err, bufferSizeInBytes, <<>>, FALSE, FALSE)

DoDestroy(ptrNull, h) ==
  LET r == Rb_DestroyBuffer(gRbInfo, ptrNull, h)
  IN /\ gRbInfo' = r.g
     /\ UNCHANGED ghost
     /\ ret' = Ret("destroy", r.handle, r.ok, r.err, 0, <<>>, FALSE, FALSE)

DoGetFreeSpace(h, ptrNull) ==
  LET r == Rb_GetFreeSpace(gRbInfo, h, ptrNull)
  IN /\ ret' = Ret("getFreeSpace", h, r.ok, r.err, r.value, <<>>, FALSE, FALSE)
     /\ UNCHANGED <<gRbInfo, ghost>>

DoDeinit(scrub) ==
  /\ gRbInfo' = Rb_DeinitModule(gRbInfo, scrub)
  /\ UNCHANGED ghost
  /\ ret' = Ret("deinit", INVALID_BUFFER_HANDLE, TRUE, "none", 0, <<>>, FALSE, FALSE)

\* the reads of the model stay within one slot past the end of dataLen
ReadIndexExplored(h) ==
  h \in Handles => gRbInfo[h].readIndex <= MAX_DATA_INDEX

PeekExplored(h, oob) ==
  h \in Handles =>
     /\ gRbInfo[h].readIndex <= MAX_DATA_INDEX
     /\ ~(gRbInfo[h].readIndex = MAX_DATA_INDEX /\ IS_DATA_FRAGMENTED(gRbInfo[h], oob))

\* what a read of dataLen[readIndex] may yield when readIndex is past the array
OobValues(h, max) ==
  IF h \in Handles /\ gRbInfo[h].readIndex >= MAX_DATA_INDEX THEN 0..max ELSE {0}

\* whether a store through readIndex past the array is seen in the fields behind it
ClobValues(h) ==
  IF h \in Handles /\ gRbInfo[h].readIndex >= MAX_DATA_INDEX THEN BOOLEAN ELSE {FALSE}

\* malloc fails or not, where Rb_PeekRead calls it
AllocValues(h, oob) ==
  IF h \in Handles /\ gRbInfo[h].readCommittedF /\ DataLenAt(gRbInfo[h], gRbInfo[h].readIndex, oob) # 0
       /\ IS_DATA_FRAGMENTED(gRbInfo[h], oob)
    THEN BOOLEAN ELSE {TRUE}

WriteBudget(h, budget) == h \in Handles => ghost[h].nWrites < budget

\* the spans passed to a call on handle h: every span up to one byte more than
\* the instance holds; one span where the handle decides the outcome
WriteInputs(h, firsts) ==
  IF IS_VALID_BUFFER_HANDLE(gRbInfo, h)
    THEN SpansFrom(firsts, 0, gRbInfo[h].size + 1)
    ELSE SpansFrom(firsts, 1, 1)

WriteCall(hs, nulls, budget, firsts) ==
  \E h \in hs, dataNull \in nulls :
   \E data \in WriteInputs(h, firsts) :
     /\ WriteBudget(h, budget)
     /\ dataNull => Len(data) = 1
     /\ DoWrite(h, dataNull, data)

PeekCall(hs, nulls) ==
  \E h \in hs, argNull \in nulls :
    \E oob \in OobValues(h, Capacity), clob \in ClobValues(h) :
      \E allocOk \in AllocValues(h, oob) :
         /\ PeekExplored(h, oob)
         /\ DoPeek(h, argNull, allocOk, oob, clob)

CommitCall(hs) ==
  \E h \in hs :
   \E dataBytes \in 0..(IF h \in Handles THEN gRbInfo[h].size + 1 ELSE 1) :
    \E oob \in OobValues(h, Capacity), clob \in ClobValues(h) :
       /\ ReadIndexExplored(h)
       /\ DoCommit(h, dataBytes, oob, clob)

\* CommitRead with the length the preceding successful PeekRead returned
CommitPeekedCall(hs) ==
  \E h \in hs \cap Handles :
    \E oob \in OobValues(h, Capacity), clob \in ClobValues(h) :
       /\ ghost[h].lastPeek > 0
       /\ ReadIndexExplored(h)
       /\ DoCommit(h, ghost[h].lastPeek, oob, clob)

WriteToBuffer == WriteCall({0}, {FALSE}, MaxWrites, Bytes) /\ UNCHANGED pc

PeekRead == PeekCall({0}, {FALSE}) /\ UNCHANGED pc

CommitRead == CommitCall({0}) /\ UNCHANGED pc

CommitPeeked == CommitPeekedCall({0}) /\ UNCHANGED pc

(* ---- the core specification: one instance of Capacity bytes, created in
   slot 0 after Rb_InitModule, and the three data calls on it, made in any
   order with any length ---- *)
Init ==
  /\ gRbInfo = Rb_CreateBuffer(Rb_InitModule, Capacity, TRUE).g
  /\ ghost = [h \in Handles |-> GhostInit]
  /\ ret = NoRet
  /\ pc = [step |-> "run", A |-> <<>>, B |-> <<>>]

Next == WriteToBuffer \/ PeekRead \/ CommitRead

Spec == Init /\ [][Next]_vars

(* ---- the same instance with a reader that keeps the protocol: every
   CommitRead passes the length of the preceding successful PeekRead ---- *)
ReaderNext == WriteToBuffer \/ PeekRead \/ CommitPeeked

ReaderSpec == Init /\ [][ReaderNext]_vars

(* ---- the handle table: instances of 1 to PoolCapacity bytes are created
   and destroyed in any order, and every call is made on every slot,
   whether it holds a live instance or not ---- *)
\* malloc fails or not, where Rb_CreateBuffer calls it
CreateAllocValues(bufferSizeInBytes) ==
  IF ~CreateSizeExceeds(bufferSizeInBytes) /\ FreeSlots(gRbInfo) # {} THEN BOOLEAN ELSE {TRUE}

\* the sizes asked for: the small ones, and one more than the limit
PoolSizes == (1..PoolCapacity) \cup {MAX_ALLOWED_BUFFER_SIZE_IN_BYTES + 1}

CreateBuffer ==
  /\ \E bufferSizeInBytes \in PoolSizes :
       \E allocOk \in CreateAllocValues(bufferSizeInBytes) :
          /\ DoCreate(bufferSizeInBytes, allocOk)
  /\ UNCHANGED pc

DestroyBuffer ==
  /\ \E h \in Handles, ptrNull \in BOOLEAN : DoDestroy(ptrNull, h)
  /\ UNCHANGED pc

\* the spans written here all start with the same byte value
PoolWriteToBuffer ==
  /\ Sum([i \in 1..MAX_BUFFER_HANDLE |-> ghost[i - 1].nWrites]) < PoolWrites
  /\ WriteCall(Handles, {FALSE}, PoolWrites, {1})
  /\ UNCHANGED pc

PoolPeekRead == PeekCall(Handles, {FALSE}) /\ UNCHANGED pc

PoolCommitRead == CommitCall(Handles) /\ UNCHANGED pc

PoolInit ==
  /\ gRbInfo = Rb_InitModule
  /\ ghost = [h \in Handles |-> GhostInit]
  /\ ret = NoRet
  /\ pc = [step |-> "run", A |-> <<>>, B |-> <<>>]

PoolNext ==
  \/ CreateBuffer
  \/ DestroyBuffer
  \/ PoolWriteToBuffer
  \/ PoolPeekRead
  \/ PoolCommitRead

PoolSpec == PoolInit /\ [][PoolNext]_vars

(* ---- the life of one instance: a caller that holds at most one instance,
   of at most PoolCapacity bytes, writes, peeks and commits on it, destroys
   it and creates the next one; every call is also made with handles that
   are out of range or name a free slot ---- *)
\* the handles a caller passes: the slots, one below and one above
HandleArgs == (0 - 1)..MAX_BUFFER_HANDLE

LifeCreateBuffer ==
  /\ FreeSlots(gRbInfo) = Handles
  /\ \E bufferSizeInBytes \in PoolSizes :
       \E allocOk \in CreateAllocValues(bufferSizeInBytes) :
          DoCreate(bufferSizeInBytes, allocOk)
  /\ UNCHANGED pc

LifeDestroyBuffer ==
  /\ \E h \in HandleArgs, ptrNull \in BOOLEAN : DoDestroy(ptrNull, h)
  /\ UNCHANGED pc

LifeGetFreeSpace ==
  /\ \E h \in HandleArgs, ptrNull \in BOOLEAN : DoGetFreeSpace(h, ptrNull)
  /\ UNCHANGED pc

LifeWriteToBuffer == WriteCall(HandleArgs, {FALSE}, LifeWrites, {1}) /\ UNCHANGED pc

LifePeekRead == PeekCall(HandleArgs, {FALSE}) /\ UNCHANGED pc

LifeCommitRead == CommitCall(HandleArgs) /\ UNCHANGED pc

LifeNext ==
  \/ LifeCreateBuffer
  \/ LifeDestroyBuffer
  \/ LifeGetFreeSpace
  \/ LifeWriteToBuffer
  \/ LifePeekRead
  \/ LifeCommitRead

LifeSpec == PoolInit /\ [][LifeNext]_vars

(* ---- teardown: the life of one instance, with Rb_DeinitModule called at
   any point of it and the calls going on afterwards ---- *)
DeinitModule ==
  /\ \E scrub \in BOOLEAN : DoDeinit(scrub)
  /\ UNCHANGED pc

TeardownNext ==
  \/ LifeCreateBuffer
  \/ LifeDestroyBuffer
  \/ LifeGetFreeSpace
  \/ LifeWriteToBuffer
  \/ LifePeekRead
  \/ LifeCommitRead
  \/ DeinitModule

TeardownSpec == PoolInit /\ [][TeardownNext]_vars

(* ---- the scenario: a caller that makes seven calls in a fixed order on one
   instance of 16 bytes: write A, write B, peek, commit the length of A,
   write B again, peek, commit the length of B. A and B are any two spans
   of 1 to 16 bytes ---- *)
ScenarioStep(from, to) ==
  /\ pc.step = from
  /\ pc' = [pc EXCEPT !.step = to]

ScenarioCommit(dataBytes) ==
  \E oob \in OobValues(0, Capacity), clob \in ClobValues(0) :
     /\ ReadIndexExplored(0)
     /\ DoCommit(0, dataBytes, oob, clob)

ScenarioWriteA == ScenarioStep("writeA", "writeB") /\ DoWrite(0, FALSE, pc.A)

ScenarioWriteB == ScenarioStep("writeB", "peekA") /\ DoWrite(0, FALSE, pc.B)

ScenarioPeekA == ScenarioStep("peekA", "commitA") /\ PeekCall({0}, {FALSE})

ScenarioCommitA == ScenarioStep("commitA", "writeBAgain") /\ ScenarioCommit(Len(pc.A))

ScenarioWriteBAgain == ScenarioStep("writeBAgain", "peekB") /\ DoWrite(0, FALSE, pc.B)

ScenarioPeekB == ScenarioStep("peekB", "commitB") /\ PeekCall({0}, {FALSE})

ScenarioCommitB == ScenarioStep("commitB", "done") /\ ScenarioCommit(Len(pc.B))

ScenarioInit ==
  /\ gRbInfo = Rb_CreateBuffer(Rb_InitModule, 16, TRUE).g
  /\ ghost = [h \in Handles |-> GhostInit]
  /\ ret = NoRet
  /\ pc \in {[step |-> "writeA", A |-> a, B |-> b] : a \in Spans(1, 16), b \in Spans(1, 16)}

ScenarioNext ==
  \/ ScenarioWriteA
  \/ ScenarioWriteB
  \/ ScenarioPeekA
  \/ ScenarioCommitA
  \/ ScenarioWriteBAgain
  \/ ScenarioPeekB
  \/ ScenarioCommitB

ScenarioSpec == ScenarioInit /\ [][ScenarioNext]_vars

(* ---- the claims ---- *)
rb0 == gRbInfo[0]
gh0 == ghost[0]

\* C1 (round trip): with a reader that commits the length it peeked, every
\* successful PeekRead returns the oldest span accepted by WriteToBuffer and
\* not yet returned, whole and byte for byte
C1_RoundTrip == (ret.op = "peek" /\ ret.ok) => ret.match

\* C2 (capacity enforcement): a WriteToBuffer longer than the capacity minus
\* the bytes accepted and not yet consumed fails, and a failed WriteToBuffer
\* leaves the instance as it was
C2_CapacityEnforced ==
  [][(ret'.op = "write" /\ ret'.ok
        => ret'.len <= rb0.size - PendingBytes(gh0.pend))
     /\ (ret'.op = "write" /\ ~ret'.ok => gRbInfo' = gRbInfo)]_vars

\* C3 (chunk-log bound): the log entries recorded and not yet consumed are
\* never more than the log has slots
C3_ChunkLogBound == PendingEntries(gh0.pend) <= MAX_DATA_INDEX

\* C4 (wraparound): the successful PeekRead that reaches a span whose write
\* wrapped returns that span, whole and in order
C4_Wraparound == (ret.op = "peek" /\ ret.ok /\ ret.wrapped) => ret.match

\* the cursors, the indices and the chunk log of an instance
Core(rb) == <<rb.pWriter, rb.pReader, rb.writeIndex, rb.readIndex, rb.dataLen>>

\* C5 (peek/commit alternation): a PeekRead issued while a successful PeekRead
\* has not been followed by a successful CommitRead fails with
\* ReadNotCommitted, and a CommitRead issued when PeekRead was not called
\* since the instance was created or the last CommitRead succeeded fails
\* with NoPendingPeek; both leave cursors, indices and chunk log unchanged
C5_Alternation ==
  [][/\ (gh0.outstanding /\ ret'.op = "peek")
          => (~ret'.ok /\ ret'.err = "ReadNotCommitted" /\ Core(rb0') = Core(rb0))
     /\ (~gh0.peekCalled /\ ret'.op = "commit")
          => (~ret'.ok /\ ret'.err = "NoPendingPeek" /\ Core(rb0') = Core(rb0))]_vars

\* C6 (commit length mismatch): after a successful PeekRead that returned a
\* view into the region, a CommitRead with another length fails and leaves
\* pReader, readIndex and dataLen[readIndex] unchanged
C6_LengthMismatch ==
  [][\A dataBytes \in 0..(Capacity + 1) :
       (/\ gh0.lastPeek > 0
        /\ ~gh0.lastPeekFrag
        /\ dataBytes # gh0.lastPeek
        /\ \E oob \in 0..Capacity, clob \in BOOLEAN : DoCommit(0, dataBytes, oob, clob))
       => /\ ~ret'.ok
          /\ rb0'.pReader = rb0.pReader
          /\ rb0'.readIndex = rb0.readIndex
          /\ DataLenAt(rb0', rb0'.readIndex, 0) = DataLenAt(rb0, rb0.readIndex, 0)]_vars

\* C7 (drain reset): after a successful CommitRead that leaves no chunk
\* pending both cursors and both indices are 0, and the next successful
\* WriteToBuffer stores its span from offset 0 and its length at log index 0
C7_DrainReset ==
  [][/\ gh0'.drained
          => /\ rb0'.pReader = 0 /\ rb0'.pWriter = 0
             /\ rb0'.readIndex = 0 /\ rb0'.writeIndex = 0
     /\ (gh0.drained /\ ret'.op = "write" /\ ret'.ok)
          => /\ MemRead(rb0'.mem, 0, ret'.len) = Head(gh0'.pend).span
             /\ rb0'.dataLen[0] = ret'.len]_vars

\* C9 (failure atomicity): a call that returns failure, other than a
\* PeekRead whose reassembly allocation failed, leaves the instance as it was
C9_FailureAtomicity ==
  [][(~ret'.ok /\ ret'.err # "AllocationFailure") => gRbInfo' = gRbInfo]_vars

\* the scenario of C8: A and B are 10 bytes each
Scenario10 == Len(pc.A) = 10 /\ Len(pc.B) = 10

\* the first four calls of the scenario, on which the claim and the code agree:
\* write A succeeds, write B fails with 6 bytes free, PeekRead returns the
\* bytes of A, CommitRead(10) succeeds
ScenarioHead ==
  /\ pc.step = "writeB" => (ret.ok /\ getFreeSpace(rb0) = 6)
  /\ pc.step = "peekA" => (~ret.ok /\ ret.err = "InsufficientSpace" /\ getFreeSpace(rb0) = 6)
  /\ pc.step = "commitA" => (ret.ok /\ ret.len = 10 /\ ret.view = pc.A)
  /\ pc.step = "writeBAgain" => ret.ok

\* C8 as stated (scenario on a 16-byte buffer): after A is committed the
\* write of B succeeds and wraps, 6 bytes at the tail and 4 at the head, and
\* sets the fragmented flag; the next PeekRead returns the bytes of B from a
\* reassembly buffer; the following CommitRead frees that buffer and leaves
\* the cursors at 0
C8_ScenarioAsStated ==
  Scenario10 =>
    /\ ScenarioHead
    /\ pc.step = "peekB"
         => /\ ret.ok /\ ret.wrapped /\ rb0.fragmentedDataF
            /\ Head(gh0.pend).entries = <<6, 4>>
    /\ pc.step = "commitB"
         => /\ ret.ok /\ ret.len = 10 /\ ret.view = pc.B
            /\ rb0.fragmentedDataPtr /\ rb0.fragMem = pc.B
    /\ pc.step = "done"
         => /\ ret.ok /\ ~rb0.fragmentedDataPtr
            /\ rb0.pReader = 0 /\ rb0.pWriter = 0

\* C8 amended: the commit of A drains the buffer and resets the cursors, so
\* the write of B succeeds without wrapping, at offsets 0 to 9, and leaves
\* the fragmented flag clear; the next PeekRead returns the bytes of B as a
\* view into the region, with no reassembly buffer; the following CommitRead
\* succeeds and leaves the cursors at 0
C8_Scenario ==
  Scenario10 =>
    /\ ScenarioHead
    /\ pc.step = "writeBAgain" => (rb0.pReader = 0 /\ rb0.pWriter = 0)
    /\ pc.step = "peekB"
         => /\ ret.ok /\ ~ret.wrapped /\ ~rb0.fragmentedDataF
            /\ Head(gh0.pend).entries = <<10>>
            /\ rb0.pWriter = 10
            /\ MemRead(rb0.mem, 0, 10) = pc.B
    /\ pc.step = "commitB"
         => /\ ret.ok /\ ret.len = 10 /\ ret.view = pc.B
            /\ ret.view = MemRead(rb0.mem, rb0.pReader, 10)
            /\ ~rb0.fragmentedDataPtr
    /\ pc.step = "done"
         => /\ ret.ok /\ ~rb0.fragmentedDataPtr
            /\ rb0.pReader = 0 /\ rb0.pWriter = 0

C8_ScenarioWitness == Scenario10 /\ pc.step = "done" /\ ret.op = "commit" /\ ret.ok

\* the instance a successful Rb_CreateBuffer step has made: its handle is a
\* slot that held no live instance, both cursors and both indices are 0, the
\* flags are cleared, the free space is the size asked for and PeekRead
\* finds no data
NewInstance ==
  /\ ret'.h \in Handles
  /\ ~IS_VALID_BUFFER_HANDLE(gRbInfo, ret'.h)
  /\ IS_VALID_BUFFER_HANDLE(gRbInfo', ret'.h)
  /\ FreeSlots(gRbInfo') = FreeSlots(gRbInfo) \ {ret'.h}
  /\ LET rb == gRbInfo'[ret'.h]
         peek == Rb_PeekRead(rb, FALSE, TRUE, 0, FALSE)
     IN /\ rb.pWriter = 0 /\ rb.pReader = 0
        /\ rb.writeIndex = 0 /\ rb.readIndex = 0
        /\ ~rb.fragmentedDataF /\ rb.readCommittedF /\ ~rb.fragmentedDataPtr
        /\ rb.size = ret'.len
        /\ getFreeSpace(rb) = ret'.len
        /\ ~peek.ok /\ peek.err = "NoData"

\* the two cases in which C10 says Rb_CreateBuffer fails
CreateRefused == CreateSizeExceeds(ret'.len) \/ FreeSlots(gRbInfo) = {}

\* C10 as stated: Rb_CreateBuffer fails when the size exceeds the limit or
\* every slot holds a live instance, and otherwise returns the handle of a
\* new instance in a slot that was free, reset whatever the slot held before
C10_CreateAsStated ==
  [][ret'.op = "create"
       => IF CreateRefused
            THEN ~ret'.ok /\ gRbInfo' = gRbInfo
            ELSE ret'.ok /\ NewInstance]_vars

\* C10 amended: as stated, except that Rb_CreateBuffer also fails when the
\* region cannot be allocated, and then no instance becomes live
C10_Create ==
  [][ret'.op = "create"
       => IF CreateRefused
            THEN ~ret'.ok /\ gRbInfo' = gRbInfo
            ELSE \/ ret'.ok /\ NewInstance
                 \/ /\ ~ret'.ok /\ ret'.err = "AllocationFailure"
                    /\ FreeSlots(gRbInfo') = FreeSlots(gRbInfo)]_vars

\* an instance was created in a slot whose previous instance was destroyed
\* with a chunk pending
C10_CreateWitness ==
  /\ ret.op = "create" /\ ret.ok
  /\ ret.h \in Handles
  /\ ghost[ret.h].recycled

\* C11 (DestroyBuffer): Rb_DestroyBuffer fails, changing nothing, on a handle
\* that is out of range or names a free slot; otherwise it succeeds, releases
\* the region and the reassembly buffer, makes the handle invalid and the
\* slot free for Rb_CreateBuffer; and every WriteToBuffer, PeekRead,
\* CommitRead, GetFreeSpace or DestroyBuffer on a handle that is not valid
\* fails and changes nothing
C11_Destroy ==
  [][/\ \A h \in HandleArgs :
          DoDestroy(FALSE, h)
            => IF IS_VALID_BUFFER_HANDLE(gRbInfo, h)
                 THEN /\ ret'.ok
                      /\ ret'.h = INVALID_BUFFER_HANDLE
                      /\ ~gRbInfo'[h].pBufferBegin /\ gRbInfo'[h].mem = <<>>
                      /\ ~gRbInfo'[h].fragmentedDataPtr /\ gRbInfo'[h].fragMem = <<>>
                      /\ ~IS_VALID_BUFFER_HANDLE(gRbInfo', h)
                      /\ h \in FreeSlots(gRbInfo')
                      /\ \A other \in Handles \ {h} : gRbInfo'[other] = gRbInfo[other]
                 ELSE ~ret'.ok /\ ret'.err = "InvalidHandle" /\ gRbInfo' = gRbInfo
     /\ (/\ ret'.op \in {"write", "peek", "commit", "getFreeSpace"}
         /\ ~IS_VALID_BUFFER_HANDLE(gRbInfo, ret'.h))
          => (~ret'.ok /\ ret'.err = "InvalidHandle" /\ gRbInfo' = gRbInfo)
     /\ (ret'.op = "create" /\ ret'.ok) => ret'.h \in FreeSlots(gRbInfo)]_vars

\* PeekRead failed on the handle of an instance that was destroyed while the
\* view of a fragmented peek was held
C11_DestroyWitness ==
  /\ ret.op = "peek" /\ ~ret.ok /\ ret.err = "InvalidHandle" /\ ret.h = 0
  /\ gRbInfo[0].bufferHandle = INVALID_BUFFER_HANDLE
  /\ gRbInfo[0].size > 0
  /\ ghost[0].lastPeek > 0 /\ ghost[0].lastPeekFrag

\* C12 (occupancy accounting): the free space Rb_GetFreeSpace reports is the
\* capacity minus the bytes of the chunks written and not yet consumed, so
\* the occupied space is the sum of the pending log entries
C12_Occupancy ==
  /\ Rb_GetFreeSpace(gRbInfo, 0, FALSE).ok
  /\ Rb_GetFreeSpace(gRbInfo, 0, FALSE).value = rb0.size - PendingBytes(gh0.pend)
  /\ getOccupiedSpace(rb0) = PendingBytes(gh0.pend)

\* C13 (unread chunk count): Rb_GetUnreadIndexCount returns the number of
\* log entries written and not yet consumed
C13_UnreadCount == Rb_GetUnreadIndexCount(gRbInfo, 0) = PendingEntries(gh0.pend)

\* C14 (index range): readIndex and writeIndex are both in [0, L)
C14_IndexRange ==
  /\ rb0.readIndex \in 0..(MAX_DATA_INDEX - 1)
  /\ rb0.writeIndex \in 0..(MAX_DATA_INDEX - 1)

\* C15 (cursor range): pWriter and pReader are offsets in [0, capacity)
C15_CursorRange ==
  /\ rb0.pWriter \in 0..(rb0.size - 1)
  /\ rb0.pReader \in 0..(rb0.size - 1)

\* the lengths a step has recorded in the log: the entries from the old
\* writeIndex up to the new one
NewEntries ==
  LET n == (rb0'.writeIndex - rb0.writeIndex + MAX_DATA_INDEX) % MAX_DATA_INDEX
  IN [k \in 1..n |-> rb0'.dataLen[(rb0.writeIndex + k - 1) % MAX_DATA_INDEX]]

\* C16 (write postcondition): a successful WriteToBuffer records 1 or 2 log
\* entries, each longer than 0, whose lengths sum to the written length
C16_WriteEntries ==
  [][(ret'.op = "write" /\ ret'.ok)
       => /\ Len(NewEntries) \in {1, 2}
          /\ \A k \in 1..Len(NewEntries) : NewEntries[k] > 0
          /\ Sum(NewEntries) = ret'.len]_vars

\* C17 (peek frame): a successful PeekRead of a chunk that its write recorded
\* in one log entry returns the view (region + pReader, dataLen[readIndex])
\* and changes nothing but readCommittedF
C17_PeekFrame ==
  [][(/\ ret'.op = "peek" /\ ret'.ok
      /\ gh0.pend # <<>>
      /\ Len(Head(gh0.pend).entries) = 1)
       => /\ gRbInfo' = [gRbInfo EXCEPT ![0].readCommittedF = FALSE]
          /\ rb0.readIndex \in DOMAIN rb0.dataLen
          /\ ret'.len = rb0.dataLen[rb0.readIndex]
          /\ ret'.view = MemRead(rb0.mem, rb0.pReader, ret'.len)]_vars

\* C18 (reassembly buffer lifetime): a reassembly buffer is held only while
\* a peek is outstanding; a CommitRead that finds a peek outstanding leaves
\* none held, whether it succeeds or fails; and a PeekRead made while one is
\* held does not replace it
C18_ReassemblyLifetime ==
  [][/\ rb0'.fragmentedDataPtr => ~rb0'.readCommittedF
     /\ (ret'.op = "commit" /\ ret'.err # "NoPendingPeek") => ~rb0'.fragmentedDataPtr
     /\ (ret'.op = "peek" /\ rb0.fragmentedDataPtr)
          => (rb0'.fragmentedDataPtr /\ rb0'.fragMem = rb0.fragMem)]_vars

\* C19 (allocation failure in a fragmented peek): the PeekRead fails, the
\* chunk is lost, pReader is the offset behind its second part, where the
\* next pending chunk begins, and the free space reported is the capacity
\* minus the bytes of the chunks still pending
C19_AllocationFailure ==
  [][(/\ ret'.op = "peek" /\ ret'.err = "AllocationFailure"
      /\ gh0.pend # <<>> /\ Len(Head(gh0.pend).entries) = 2
      /\ \A k \in 1..2 : Head(gh0.pend).entries[k] > 0)
       => /\ ~ret'.ok
          /\ gh0'.pend = Tail(gh0.pend)
          /\ rb0'.pReader = Head(gh0.pend).entries[Len(Head(gh0.pend).entries)] % rb0.size
          /\ getFreeSpace(rb0') = rb0.size - PendingBytes(gh0'.pend)]_vars

\* a CommitRead of dataBytes made while the latest successful PeekRead, not
\* yet followed by a CommitRead, returned a reassembly buffer
FragmentedCommit(dataBytes) ==
  /\ gh0.lastPeek > 0
  /\ gh0.lastPeekFrag
  /\ \E oob \in 0..Capacity, clob \in BOOLEAN : DoCommit(0, dataBytes, oob, clob)

FragmentedCommitReleases ==
  /\ ret'.ok
  /\ ~rb0'.fragmentedDataPtr
  /\ ~rb0'.fragmentedDataF
  /\ rb0'.readCommittedF

C21_NoStuckReader ==
  (/\ IS_VALID_BUFFER_HANDLE(gRbInfo, 0)
   /\ gh0.pend # <<>>
   /\ ~gh0.outstanding)
    => \A oob \in OobValues(0, Capacity), clob \in ClobValues(0) :
         LET r == Rb_PeekRead(rb0, FALSE, TRUE, oob, clob)
         IN r.ok /\ r.len > 0

\* C22 (commit retires only what was peeked): a CommitRead that succeeds and
\* consumes a chunk follows a successful PeekRead, with no CommitRead in
\* between, and commits the length that PeekRead returned
C22_CommitOnlyPeeked ==
  [][(ret'.op = "commit" /\ ret'.ok /\ gh0'.pend # gh0.pend)
       => /\ gh0.lastPeek > 0
          /\ ret'.len = gh0.lastPeek]_vars

\* C23 (teardown): after Rb_DeinitModule every region and every reassembly
\* buffer is released and no handle is valid; and a WriteToBuffer, PeekRead,
\* CommitRead or DestroyBuffer that succeeds is a call on an instance whose
\* region is allocated
C23_Teardown ==
  [][/\ ret'.op = "deinit"
          => \A h \in Handles :
                /\ ~gRbInfo'[h].pBufferBegin
                /\ ~gRbInfo'[h].fragmentedDataPtr
                /\ ~IS_VALID_BUFFER_HANDLE(gRbInfo', h)
     /\ \A h \in Handles :
          (\/ ret'.op \in {"write", "peek", "commit"} /\ ret'.ok /\ ret'.h = h
           \/ DoDestroy(FALSE, h) /\ ret'.ok)
            => gRbInfo[h].pBufferBegin]_vars

====
